---- MODULE Spec2Model ----
(***************************************************************************)
(* Model of the appointment pipeline of src/vm/test.py:                    *)
(* create_df_from_excel reads the appointment sheet, then runs              *)
(* filter_minor_from_df, filter_accepted_insurances, add_pnr_to_df,         *)
(* add_check_2nd_pnr, add_cat_code, extract_scadenza_from_df and to_csv.    *)
(*                                                                         *)
(* Text cells are sequences of one-character strings so that the regular   *)
(* expressions and the case of letters are computed, not assumed.          *)
(* A nullable cell (NaN / NaT) is an option: <<>> is null, <<v>> holds v.   *)
(*                                                                         *)
(* Second part: process_patients of src/aws/__main__.py, the batch script  *)
(* that submits the patients to the portal and mails the response.         *)
(***************************************************************************)
EXTENDS Integers, Sequences, FiniteSets, TLC

VARIABLES
    sheet,      \* rows of the appointment sheet on disk (positional cells)
    tabella,    \* the "Tabella" header sheet on disk
    now,        \* the clock read by pd.Timestamp("now") / dateutil's default
    osr_file,   \* column "Prestazione" of sheet "OSR" of the second-PNR file
    srt_file,   \* column "Prestazione" of sheet "SRT" of the second-PNR file
    cat_file,   \* rows of sheet "Codice" of the category file
    pc,         \* position of create_df_from_excel
    columns,    \* column names of df_patients
    note_dtype, \* dtype pandas inferred for column "Note" when reading
    df,         \* df_patients: the batch threaded through the stages
    received,   \* the batch the last stage was called with
    ran,        \* stages that returned: [stage, nin, nout]
    log,        \* records emitted through logger
    error,      \* the exception that ended the run, if any
    output,     \* the file written by to_csv, if any
    patients,   \* process_patients: the list of patients it is called with
    username,   \* process_patients: portal user name
    password,   \* process_patients: portal password
    aws_pc,     \* position of process_patients
    webdriver,  \* the local webdriver: "unbound", "open" or "quit"
    response,   \* the local response: "unbound" or "bound"
    cursor,     \* index in patients of the next iteration of the for loop
    calls,      \* calls made on the collaborators, in order: [call, arg]
    aws_error   \* the exception that left process_patients, if any

aws == <<patients, username, password, aws_pc, webdriver, response, cursor,
         calls, aws_error>>

vm == <<sheet, tabella, now, osr_file, srt_file, cat_file, pc, columns,
        note_dtype, df, received, ran, log, error, output>>

vars == <<vm, aws>>

\* what no stage of the pipeline touches: its input files, the clock and the
\* batch script
env == <<sheet, tabella, now, osr_file, srt_file, cat_file, aws>>

----------------------------------------------------------------------------
(* Bounds of the model *)

MaxRecords == 2
MaxTokens == 3
MaxRows == 2
MaxPatients == 3

----------------------------------------------------------------------------
(* Options and small helpers *)

None == <<>>
Some(v) == <<v>>
IsNull(o) == o = <<>>
Get(o) == o[1]

Range(s) == {s[i] : i \in 1..Len(s)}

SeqsUpTo(S, n) == UNION {[1..k -> S] : k \in 0..n}

NonEmptySeqsUpTo(S, n) == UNION {[1..k -> S] : k \in 1..n}

RECURSIVE Concat(_)
Concat(ss) == IF ss = <<>> THEN <<>> ELSE Head(ss) \o Concat(Tail(ss))

----------------------------------------------------------------------------
(* Characters *)

UpperLetters == <<"A","B","C","D","E","F","G","H","I","J","K","L","M",
                  "N","O","P","Q","R","S","T","U","V","W","X","Y","Z">>
LowerLetters == <<"a","b","c","d","e","f","g","h","i","j","k","l","m",
                  "n","o","p","q","r","s","t","u","v","w","x","y","z">>
DigitChars == <<"0","1","2","3","4","5","6","7","8","9">>

DigitSet == Range(DigitChars)
UpperSet == Range(UpperLetters)
WordSet == Range(UpperLetters) \cup Range(LowerLetters) \cup Range(DigitChars) \cup {"_"}

IsDigit(c) == c \in DigitSet
IsWord(c) == c \in WordSet

DigitVal(c) == (CHOOSE i \in 1..10 : DigitChars[i] = c) - 1

LowerChar(c) ==
    IF c \in UpperSet
    THEN LowerLetters[CHOOSE i \in 1..26 : UpperLetters[i] = c]
    ELSE c

Lower(s) == [i \in 1..Len(s) |-> LowerChar(s[i])]

RECURSIVE NumVal(_)
NumVal(s) == IF s = <<>> THEN 0
             ELSE 10 * NumVal(SubSeq(s, 1, Len(s) - 1)) + DigitVal(s[Len(s)])

----------------------------------------------------------------------------
(* Calendar *)

IsLeap(y) == (y % 4 = 0 /\ y % 100 # 0) \/ y % 400 = 0

DaysInMonth(y, m) ==
    IF m = 2 THEN (IF IsLeap(y) THEN 29 ELSE 28)
    ELSE IF m \in {4, 6, 9, 11} THEN 30 ELSE 31

RECURSIVE DaysBeforeMonth(_, _)
DaysBeforeMonth(y, m) ==
    IF m = 1 THEN 0 ELSE DaysBeforeMonth(y, m - 1) + DaysInMonth(y, m - 1)

RECURSIVE DaysBeforeYear(_)
DaysBeforeYear(y) ==
    IF y <= 1970 THEN 0
    ELSE DaysBeforeYear(y - 1) + (IF IsLeap(y - 1) THEN 366 ELSE 365)

\* days since 1970-01-01 of a date [y, m, d]
DayNumber(t) == DaysBeforeYear(t.y) + DaysBeforeMonth(t.y, t.m) + (t.d - 1)

IsValidDate(t) ==
    /\ t.y >= 1
    /\ t.m \in 1..12
    /\ t.d >= 1 /\ t.d <= DaysInMonth(t.y, t.m)

Date(y, m, d) == [y |-> y, m |-> m, d |-> d]

----------------------------------------------------------------------------
(* Regular expressions of src/vm/constants.py, as re.findall runs them *)

WordAt(s, i) == i >= 1 /\ i <= Len(s) /\ IsWord(s[i])

\* \b between s[i-1] and s[i]
Boundary(s, i) == WordAt(s, i - 1) # WordAt(s, i)

DigitsAt(s, i, n) == i + n - 1 <= Len(s) /\ \A k \in i..(i + n - 1) : IsDigit(s[k])

SepAt(s, i) == i <= Len(s) /\ s[i] \in {".", "/", "-"}

\* PNR_REGEX = \b[XB][XB]\w{6}\b under re.IGNORECASE, tried at position i
PnrMatchAt(s, i) ==
    /\ i + 7 <= Len(s)
    /\ Boundary(s, i)
    /\ LowerChar(s[i]) \in {"x", "b"}
    /\ LowerChar(s[i + 1]) \in {"x", "b"}
    /\ \A k \in (i + 2)..(i + 7) : IsWord(s[k])
    /\ Boundary(s, i + 8)

RECURSIVE PnrFindAllFrom(_, _)
PnrFindAllFrom(s, i) ==
    IF i > Len(s) THEN <<>>
    ELSE IF PnrMatchAt(s, i)
         THEN <<SubSeq(s, i, i + 7)>> \o PnrFindAllFrom(s, i + 8)
         ELSE PnrFindAllFrom(s, i + 1)

PnrFindAll(s) == PnrFindAllFrom(s, 1)

\* SCADENZA_REGEX = \b\d{1,2}[./-]\d{1,2}(?:[./-]\d{2,4})?\b
\* One way of matching: d1 digits, separator, d2 digits, then either
\* nothing (g = 0) or a separator and g digits.
ScadFits(s, i, d1, d2, g) ==
    /\ Boundary(s, i)
    /\ DigitsAt(s, i, d1)
    /\ SepAt(s, i + d1)
    /\ DigitsAt(s, i + d1 + 1, d2)
    /\ g > 0 => /\ SepAt(s, i + d1 + 1 + d2)
                /\ DigitsAt(s, i + d1 + 2 + d2, g)
    /\ Boundary(s, i + d1 + 1 + d2 + (IF g > 0 THEN g + 1 ELSE 0))

\* The ways in the order the backtracking matcher tries them: every
\* quantifier is greedy, the leftmost one is given up last.
ScadWays ==
    << <<2, 2, 4>>, <<2, 2, 3>>, <<2, 2, 2>>, <<2, 2, 0>>,
       <<2, 1, 4>>, <<2, 1, 3>>, <<2, 1, 2>>, <<2, 1, 0>>,
       <<1, 2, 4>>, <<1, 2, 3>>, <<1, 2, 2>>, <<1, 2, 0>>,
       <<1, 1, 4>>, <<1, 1, 3>>, <<1, 1, 2>>, <<1, 1, 0>> >>

ScadWayFits(s, i, k) == ScadFits(s, i, ScadWays[k][1], ScadWays[k][2], ScadWays[k][3])

ScadMatchAt(s, i) ==
    /\ Boundary(s, i)
    /\ IsDigit(s[i])
    /\ \E k \in 1..Len(ScadWays) : ScadWayFits(s, i, k)

\* the way the matcher settles on at position i
ScadWayAt(s, i) ==
    ScadWays[CHOOSE k \in 1..Len(ScadWays) :
                /\ ScadWayFits(s, i, k)
                /\ \A j \in 1..(k - 1) : ~ScadWayFits(s, i, j)]

ScadWayLen(w) == w[1] + 1 + w[2] + (IF w[3] > 0 THEN w[3] + 1 ELSE 0)

RECURSIVE ScadFindAllFrom(_, _)
ScadFindAllFrom(s, i) ==
    IF i > Len(s) THEN <<>>
    ELSE IF ScadMatchAt(s, i)
         THEN LET n == ScadWayLen(ScadWayAt(s, i))
              IN  <<SubSeq(s, i, i + n - 1)>> \o ScadFindAllFrom(s, i + n)
         ELSE ScadFindAllFrom(s, i + 1)

ScadFindAll(s) == ScadFindAllFrom(s, 1)

----------------------------------------------------------------------------
(* dateutil.parser.parse(text, dayfirst=True) on a text SCADENZA_REGEX matched *)

SepPositions(m) == {i \in 1..Len(m) : m[i] \in {".", "/", "-"}}

FirstSep(m) == CHOOSE i \in SepPositions(m) : \A j \in SepPositions(m) : i <= j
LastSep(m) == CHOOSE i \in SepPositions(m) : \A j \in SepPositions(m) : j <= i

\* the digit groups of a match, left to right
ScadFields(m) ==
    IF Cardinality(SepPositions(m)) = 1
    THEN << SubSeq(m, 1, FirstSep(m) - 1), SubSeq(m, FirstSep(m) + 1, Len(m)) >>
    ELSE << SubSeq(m, 1, FirstSep(m) - 1),
            SubSeq(m, FirstSep(m) + 1, LastSep(m) - 1),
            SubSeq(m, LastSep(m) + 1, Len(m)) >>

\* parserinfo.convertyear: a year below 100 written with at most two digits
\* is moved into the century around the current year
ConvertYear(year, century_specified, today) ==
    IF year < 100 /\ ~century_specified
    THEN LET y == year + (today.y \div 100) * 100
         IN  IF y >= today.y + 50 THEN y - 100
             ELSE IF y < today.y - 50 THEN y + 100
             ELSE y
    ELSE year

\* _ymd.resolve_ymd for three numbers, dayfirst=True, yearfirst=False
ResolveThree(a, b, c) ==
    IF a > 31
    THEN (IF c <= 12 THEN [y |-> Some(a), m |-> Some(c), d |-> Some(b)]
                     ELSE [y |-> Some(a), m |-> Some(b), d |-> Some(c)])
    ELSE IF a > 12 \/ b <= 12
    THEN [y |-> Some(c), m |-> Some(b), d |-> Some(a)]
    ELSE [y |-> Some(c), m |-> Some(a), d |-> Some(b)]

\* _ymd.resolve_ymd for two numbers, dayfirst=True
ResolveTwo(a, b) ==
    IF a > 31 THEN [y |-> Some(a), m |-> Some(b), d |-> None]
    ELSE IF b > 31 THEN [y |-> Some(b), m |-> Some(a), d |-> None]
    ELSE IF b <= 12 THEN [y |-> None, m |-> Some(b), d |-> Some(a)]
    ELSE [y |-> None, m |-> Some(a), d |-> Some(b)]

\* _ymd.resolve_ymd for one number
ResolveOne(a) ==
    IF a > 31 THEN [y |-> Some(a), m |-> None, d |-> None]
    ELSE [y |-> None, m |-> None, d |-> Some(a)]

\* parser._build_naive: fields not found come from today; a day taken from
\* today is clamped to the month's length; an impossible date raises
BuildNaive(res, century_specified, today) ==
    LET year  == IF IsNull(res.y) THEN today.y
                 ELSE ConvertYear(Get(res.y), century_specified, today)
        month == IF IsNull(res.m) THEN today.m ELSE Get(res.m)
        day   == IF IsNull(res.d)
                 THEN (IF month \in 1..12 /\ today.d > DaysInMonth(year, month)
                       THEN DaysInMonth(year, month) ELSE today.d)
                 ELSE Get(res.d)
        date  == Date(year, month, day)
    IN  [ok |-> IsValidDate(date), date |-> date]

ParseFailure == [ok |-> FALSE, date |-> Date(0, 0, 0)]

\* The lexer keeps "5.6" as one decimal number and splits "5.6.2024", which
\* has two dots, into three numbers.
dateutil_parse(m, today) ==
    LET f    == ScadFields(m)
        dot1 == m[FirstSep(m)] = "."
        dot2 == m[LastSep(m)] = "."
    IN  IF Len(f) = 2
        THEN IF dot1
             THEN BuildNaive(ResolveOne(NumVal(f[1])), FALSE, today)
             ELSE BuildNaive(ResolveTwo(NumVal(f[1]), NumVal(f[2])), FALSE, today)
        ELSE IF dot1 # dot2
             THEN ParseFailure
             ELSE BuildNaive(ResolveThree(NumVal(f[1]), NumVal(f[2]), NumVal(f[3])),
                             Len(f[3]) > 2, today)

----------------------------------------------------------------------------
(* Constants of the program *)

\* src/vm/constants.py: QUAS, QUAS_PENSIONATI
QUAS == <<"Q","U","A","S">>
QUAS_PENSIONATI == <<"Q","U","A","S","-","P","E","N","S","I","O","N","A","T","I">>

\* create_df_from_excel is called with accepted_insurances=(QUAS, QUAS_PENSIONATI)
accepted_insurances == <<QUAS, QUAS_PENSIONATI>>

\* src/vm/constants.py: DICT_PRESTAZIONNE, keys 1..10
DICT_PRESTAZIONNE ==
    << "ALTRE PRESTAZIONI O NESSUNA DELL'ELENCO",
       "Visite specialistiche",
       "Prestazioni di fisioterapia (MAX 500E/ANNO)",
       "Chirurgia dermatologica",
       "Visite specialistiche in gravidanza (assistito)",
       "Ecografie in gravidanza",
       "Visite specialistiche pediatriche (tutela del figlio)",
       "Prevenzione",
       "Fisioterapia oltre 500E SOLO PER CONDIZIONI SPECIALI",
       "Visite specialistiche (tutela del figlio, non pediatriche)" >>

\* seconds in numpy's timedelta64 unit "Y" (365.2425 days)
YearSeconds == 31556952

\* the columns the stages read
ExpectedColumns ==
    {"Data_Di_Nascita", "Descrizione_BusinessPartner", "Istituto", "Esame", "Note"}

----------------------------------------------------------------------------
(* The files and the clock the run may find: bounded sets of inputs *)

Row(birth, insurance, institute, exam, note) ==
    [Data_Di_Nascita |-> birth, Descrizione_BusinessPartner |-> insurance,
     Istituto |-> institute, Esame |-> exam, Note |-> note]

\* pieces of free text; a note is up to MaxTokens pieces written one after
\* the other, so that pieces also run into each other
NoteTokens ==
    { <<"X","X","1","2","3","4","5","6">>,
      <<"b","x","6","5","_","3","2","a">>,
      <<" ">>,
      <<"0","5","/","0","6","/","2","0","2","4">>,
      <<"7","-","8">> }

NoteTexts == {Concat(ts) : ts \in NonEmptySeqsUpTo(NoteTokens, MaxTokens)}

DefaultNote == <<"B","x","1","2","3","4","5","6"," ","1","2","/","2","5","/","2","4">>

DefaultBirth == Date(1980, 1, 1)
DefaultRow == Row(DefaultBirth, QUAS, 1, "E1", Some(DefaultNote))
NoNoteRow == Row(DefaultBirth, QUAS_PENSIONATI, 8, "E2", None)

Births == {Date(2003, 3, 1), Date(2005, 3, 1), Date(2005, 3, 2), DefaultBirth}

Noon == 12 * 3600
Clock(date, s) == [date |-> date, s |-> s]
DefaultNow == Clock(Date(2023, 3, 1), Noon)
Nows == {Clock(d, s) : d \in {Date(2021, 2, 28), Date(2021, 3, 1), Date(2023, 3, 1)},
                       s \in {0, 8 * 3600, Noon}}

Insurances ==
    { QUAS, QUAS_PENSIONATI, <<"q","u","a","s">>, <<"Q","u","a","s">>,
      <<"A","L","T","R","A">> }

Institutes == {1, 2, 8}
Exams == {"E1", "E2"}
CodeLists == { <<>>, <<"E1">>, <<"E2", "E1">> }

\* a row of sheet "Codice": the two columns the join uses and one more
CatRows ==
    {[Codice_Esame_SAP |-> x[1], ID_prestazioni |-> x[2], Altro |-> x[3]] :
        x \in {<<"E1", 3, 0>>, <<"E1", 3, 1>>, <<"E1", 8, 0>>, <<"E1", 11, 0>>,
               <<"E2", 8, 0>>}}
DefaultCat == << [Codice_Esame_SAP |-> "E1", ID_prestazioni |-> 3, Altro |-> 0] >>

Tabella(present, ncols, names) == [present |-> present, ncols |-> ncols, names |-> names]
DefaultTabella == Tabella(TRUE, Cardinality(ExpectedColumns), ExpectedColumns)
Tabellas ==
    {Tabella(FALSE, 0, {}), Tabella(TRUE, Cardinality(ExpectedColumns) + 1, ExpectedColumns)}
    \cup {Tabella(TRUE, Cardinality(ExpectedColumns), ns) : ns \in SUBSET ExpectedColumns}

Batches(rows) == NonEmptySeqsUpTo(rows, MaxRecords)

InitRun ==
    /\ pc = "start"
    /\ columns = {}
    /\ note_dtype = "none"
    /\ df = <<>>
    /\ received = <<>>
    /\ ran = <<>>
    /\ log = <<>>
    /\ error = None
    /\ output = None

InitAge ==
    /\ sheet \in Batches({Row(b, QUAS, 1, "E1", Some(DefaultNote)) : b \in Births})
    /\ now \in Nows
    /\ tabella = DefaultTabella /\ osr_file = <<"E1">> /\ srt_file = <<"E2">>
    /\ cat_file = DefaultCat

InitInsurance ==
    /\ sheet \in Batches({Row(DefaultBirth, i, 1, "E1", Some(DefaultNote)) : i \in Insurances})
    /\ now = DefaultNow
    /\ tabella = DefaultTabella /\ osr_file = <<"E1">> /\ srt_file = <<"E2">>
    /\ cat_file = DefaultCat

InitNotes ==
    /\ sheet \in { <<Row(DefaultBirth, QUAS, 1, "E1", n)>> \o rest :
                     n \in {None} \cup {Some(t) : t \in NoteTexts},
                     rest \in SeqsUpTo({NoNoteRow}, MaxRecords - 1) }
    /\ now = DefaultNow
    /\ tabella = DefaultTabella /\ osr_file = <<"E1">> /\ srt_file = <<"E2">>
    /\ cat_file = DefaultCat

InitSecondPnr ==
    /\ sheet \in Batches({Row(DefaultBirth, QUAS, i, e, Some(DefaultNote)) :
                            i \in Institutes, e \in Exams})
    /\ osr_file \in CodeLists /\ srt_file \in CodeLists
    /\ now = DefaultNow /\ tabella = DefaultTabella /\ cat_file = DefaultCat

InitCategory ==
    /\ sheet \in Batches({Row(DefaultBirth, QUAS, 1, e, Some(DefaultNote)) : e \in Exams})
    /\ cat_file \in SeqsUpTo(CatRows, MaxRows)
    /\ now = DefaultNow /\ tabella = DefaultTabella
    /\ osr_file = <<"E1">> /\ srt_file = <<"E2">>

InitHeader ==
    /\ sheet \in Batches({DefaultRow, NoNoteRow})
    /\ tabella \in Tabellas
    /\ now = DefaultNow /\ osr_file = <<"E1">> /\ srt_file = <<"E2">>
    /\ cat_file = DefaultCat

\* process_patients has not been called
InitNotCalled ==
    /\ patients = <<>>
    /\ username = ""
    /\ password = ""
    /\ aws_pc = "not_called"
    /\ webdriver = "unbound"
    /\ response = "unbound"
    /\ cursor = 1
    /\ calls = <<>>
    /\ aws_error = None

Init ==
    /\ InitAge \/ InitInsurance \/ InitNotes \/ InitSecondPnr \/ InitCategory \/ InitHeader
    /\ InitRun
    /\ InitNotCalled

----------------------------------------------------------------------------
(* The stages as functions of the batch *)

\* (pd.Timestamp("now") - Data_Di_Nascita).astype("<m8[Y]"): the elapsed time
\* in units of YearSeconds, fraction dropped; birth dates are at midnight
Age(birth, clock) ==
    ((DayNumber(clock.date) - DayNumber(birth)) * 86400 + clock.s) \div YearSeconds

IsAdult(r) == r.age >= 18

filter_minor(dfp, clock) ==
    SelectSeq([i \in 1..Len(dfp) |->
                 dfp[i] @@ [age |-> Age(dfp[i].Data_Di_Nascita, clock)]],
              IsAdult)

\* Series.isin(values)
isin(v, values) == \E k \in 1..Len(values) : values[k] = v

\* a comparison that folds case, as str.lower() on both sides would
HasAcceptedInsuranceAnyCase(r) ==
    \E k \in 1..Len(accepted_insurances) :
        Lower(accepted_insurances[k]) = Lower(r.Descrizione_BusinessPartner)

HasAcceptedInsurance(r) == isin(r.Descrizione_BusinessPartner, accepted_insurances)

filter_insurances(dfp) == SelectSeq(dfp, HasAcceptedInsurance)

\* pnr.str.findall(PNR_REGEX, re.IGNORECASE), aligned on the index: a row
\* without a note gets NaN
PnrColumn(dfp) ==
    [i \in 1..Len(dfp) |->
        IF IsNull(dfp[i].Note) THEN None ELSE Some(PnrFindAll(Get(dfp[i].Note)))]

\* the column as findall leaves it, NaN kept
KeepNaN(col) == col

\* df.loc[idx, "PNR"] = df.loc[idx, "PNR"].fillna("[]").apply(eval)
FillEmptyLists(col) ==
    [i \in 1..Len(col) |-> IF IsNull(col[i]) THEN Some(<<>>) ELSE col[i]]

add_pnr(dfp) ==
    LET col == FillEmptyLists(PnrColumn(dfp))
    IN  [i \in 1..Len(dfp) |-> dfp[i] @@ [PNR |-> col[i]]]

\* the two lists applied to every institute
NeedsSecondPnrAnyInstitute(r, list_osr, list_srt) ==
    isin(r.Esame, list_osr) \/ isin(r.Esame, list_srt)

NeedsSecondPnr(r, list_osr, list_srt) ==
    \/ r.Istituto = 1 /\ isin(r.Esame, list_osr)
    \/ r.Istituto = 8 /\ isin(r.Esame, list_srt)

add_second_pnr(dfp, list_osr, list_srt) ==
    [i \in 1..Len(dfp) |->
        dfp[i] @@ [second_pnr |-> NeedsSecondPnr(dfp[i], list_osr, list_srt)]]

\* DataFrame.drop_duplicates(): a row equal in every column to an earlier
\* row is dropped
drop_duplicates(t) ==
    LET keep == {i \in 1..Len(t) : \A j \in 1..(i - 1) : t[j] # t[i]}
        RECURSIVE Pick(_)
        Pick(i) == IF i > Len(t) THEN <<>>
                   ELSE (IF i \in keep THEN <<t[i]>> ELSE <<>>) \o Pick(i + 1)
    IN  Pick(1)

\* df_cat_code[["Codice Esame SAP", "ID prestazioni"]]
JoinRight(t) ==
    [i \in 1..Len(t) |->
        [Codice_Esame_SAP |-> t[i].Codice_Esame_SAP, ID_prestazioni |-> t[i].ID_prestazioni]]

\* the rows pd.merge(..., how="left") makes of one left row: one per right
\* row with its key, in the right table's order, or one with NaN
MergeRow(r, right) ==
    LET hits == SelectSeq(right, LAMBDA x : x.Codice_Esame_SAP = r.Esame)
    IN  IF hits = <<>>
        THEN << r @@ [Codice_Esame_SAP |-> None, ID_prestazioni |-> None] >>
        ELSE [k \in 1..Len(hits) |->
                r @@ [Codice_Esame_SAP |-> Some(hits[k].Codice_Esame_SAP),
                      ID_prestazioni |-> Some(hits[k].ID_prestazioni)]]

RECURSIVE MergeLeftFrom(_, _, _)
MergeLeftFrom(dfp, right, i) ==
    IF i > Len(dfp) THEN <<>>
    ELSE MergeRow(dfp[i], right) \o MergeLeftFrom(dfp, right, i + 1)

\* the merged frame has a new index 0..n-1
merge_left(dfp, right) ==
    LET rows == MergeLeftFrom(dfp, right, 1)
    IN  [i \in 1..Len(rows) |-> [rows[i] EXCEPT !.idx = i - 1]]

\* the labels looked up as if the keys started at 0
MapPrestazioneFromZero(id) ==
    IF ~IsNull(id) /\ (Get(id) + 1) \in DOMAIN DICT_PRESTAZIONNE
    THEN Some(DICT_PRESTAZIONNE[Get(id) + 1]) ELSE None

\* Series.map(DICT_PRESTAZIONNE): NaN for NaN and for a key not in the dict
MapPrestazione(id) ==
    IF ~IsNull(id) /\ Get(id) \in DOMAIN DICT_PRESTAZIONNE
    THEN Some(DICT_PRESTAZIONNE[Get(id)]) ELSE None

add_cat(dfp, table) ==
    LET joined == merge_left(dfp, JoinRight(drop_duplicates(table)))
    IN  [i \in 1..Len(joined) |->
            joined[i] @@ [type_prestazioni |-> MapPrestazione(joined[i].ID_prestazioni)]]

\* the last match instead of the first, as .str[-1] would take
LastScad(r) ==
    IF IsNull(r.Note) THEN None
    ELSE LET found == ScadFindAll(Get(r.Note))
         IN  IF found = <<>> THEN None ELSE Some(found[Len(found)])

\* scad.str.findall(SCADENZA_REGEX).str[0].dropna(): the first match of a
\* note, nothing for a row without a note or without a match
FirstScad(r) ==
    IF IsNull(r.Note) THEN None
    ELSE LET found == ScadFindAll(Get(r.Note))
         IN  IF found = <<>> THEN None ELSE Some(found[1])

ScadCell(r, clock) ==
    IF IsNull(FirstScad(r)) THEN None
    ELSE Some(dateutil_parse(Get(FirstScad(r)), clock.date).date)

ScadParses(r, clock) ==
    IsNull(FirstScad(r)) \/ dateutil_parse(Get(FirstScad(r)), clock.date).ok

extract_scadenza(dfp, clock) ==
    [i \in 1..Len(dfp) |-> dfp[i] @@ [scad |-> ScadCell(dfp[i], clock)]]

----------------------------------------------------------------------------
(* create_df_from_excel, one action per statement of its body *)

Debug(fn, n) == [level |-> "debug", fn |-> fn, n |-> n]
Warning(fn, n) == [level |-> "warning", fn |-> fn, n |-> n]
Error(fn, n) == [level |-> "error", fn |-> fn, n |-> n]

\* an exception leaves create_df_from_excel: nothing after it runs
Raise(stage, exception) ==
    /\ pc' = "aborted"
    /\ error' = Some([stage |-> stage, exception |-> exception])
    /\ UNCHANGED <<columns, note_dtype, df, received, ran, log, output>>

\* a stage returns: the driver binds its result to df_patients
Return(stage, next, result, entries) ==
    /\ pc' = next
    /\ received' = df
    /\ df' = result
    /\ ran' = Append(ran, [stage |-> stage, nin |-> Len(df), nout |-> Len(result)])
    /\ log' = log \o entries
    /\ UNCHANGED <<columns, note_dtype, error, output>>

\* lines 241-247: the rows are read without a header, so the column labels
\* are numbers and the names always come from row 2 of sheet "Tabella"
read_excel ==
    /\ pc = "start"
    /\ IF ~tabella.present
       THEN Raise("read_excel", "ValueError")
       ELSE IF tabella.ncols # Cardinality(ExpectedColumns)
       THEN Raise("read_excel", "ValueError")
       ELSE /\ pc' = "read"
            /\ df' = [i \in 1..Len(sheet) |-> sheet[i] @@ [idx |-> i - 1]]
            /\ columns' = tabella.names
            /\ note_dtype' = IF \E i \in 1..Len(sheet) : ~IsNull(sheet[i].Note)
                             THEN "object" ELSE "float64"
            /\ log' = Append(log, Debug("create_df_from_excel", Len(sheet)))
            /\ UNCHANGED <<received, ran, error, output>>
    /\ UNCHANGED env

filter_minor_from_df ==
    /\ pc = "read"
    /\ IF "Data_Di_Nascita" \notin columns
       THEN Raise("filter_minor_from_df", "KeyError")
       ELSE LET nb_patient_before == Len(df)
                result == filter_minor(df, now)
                nb_patient_after == Len(result)
                nb_minor == nb_patient_before - nb_patient_after
            IN  Return("filter_minor_from_df", "minor_filtered", result,
                       << Debug("filter_minor_from_df", IF nb_minor > 0 THEN nb_minor ELSE 0) >>)
    /\ UNCHANGED env

\* line 78 counts df_patients again, not result
filter_accepted_insurances ==
    /\ pc = "minor_filtered"
    /\ IF "Descrizione_BusinessPartner" \notin columns
       THEN Raise("filter_accepted_insurances", "KeyError")
       ELSE LET nb_patient_before == Len(df)
                result == filter_insurances(df)
                nb_patient_after == Len(df)
            IN  Return("filter_accepted_insurances", "insurance_filtered", result,
                       IF nb_patient_before # nb_patient_after
                       THEN << Warning("filter_accepted_insurances",
                                       nb_patient_before - nb_patient_after) >>
                       ELSE <<>>)
    /\ UNCHANGED env

\* .str exists only on a column of strings: a "Note" column read with no
\* text in any row is float64
add_pnr_to_df ==
    /\ pc = "insurance_filtered"
    /\ IF "Note" \notin columns
       THEN Raise("add_pnr_to_df", "KeyError")
       ELSE IF note_dtype # "object"
       THEN Raise("add_pnr_to_df", "AttributeError")
       ELSE LET nb_patient_before == Len(df)
                result == add_pnr(df)
                nb_patient_after == Len(result)
            IN  Return("add_pnr_to_df", "pnr_added", result,
                       IF nb_patient_before # nb_patient_after
                       THEN << Error("add_pnr_to_df", nb_patient_before - nb_patient_after) >>
                       ELSE <<>>)
    /\ UNCHANGED env

add_check_2nd_pnr ==
    /\ pc = "pnr_added"
    /\ IF "Istituto" \notin columns \/ "Esame" \notin columns
       THEN Raise("add_check_2nd_pnr", "KeyError")
       ELSE LET list_2nd_pnr_osr == osr_file
                list_2nd_pnr_srt == srt_file
                result == add_second_pnr(df, list_2nd_pnr_osr, list_2nd_pnr_srt)
                nb_second_pnr == Cardinality({i \in 1..Len(result) : result[i].second_pnr})
            IN  Return("add_check_2nd_pnr", "second_pnr_checked", result,
                       << Debug("add_check_2nd_pnr", nb_second_pnr) >>)
    /\ UNCHANGED env

\* a changed count is logged as an error and the joined frame is returned
add_cat_code ==
    /\ pc = "second_pnr_checked"
    /\ IF "Esame" \notin columns
       THEN Raise("add_cat_code", "KeyError")
       ELSE LET nb_patient_before == Len(df)
                joined == add_cat(df, cat_file)
                nb_patient_after == Len(joined)
            IN  Return("add_cat_code", "cat_added", joined,
                       IF nb_patient_before # nb_patient_after
                       THEN << Error("add_cat_code", nb_patient_before - nb_patient_after) >>
                       ELSE <<>>)
    /\ UNCHANGED env

extract_scadenza_from_df ==
    /\ pc = "cat_added"
    /\ IF "Note" \notin columns
       THEN Raise("extract_scadenza_from_df", "KeyError")
       ELSE IF note_dtype # "object"
       THEN Raise("extract_scadenza_from_df", "AttributeError")
       ELSE IF \E i \in 1..Len(df) : ~ScadParses(df[i], now)
       THEN Raise("extract_scadenza_from_df", "ParserError")
       ELSE LET nb_patient_before == Len(df)
                result == extract_scadenza(df, now)
                nb_patient_after == Len(result)
            IN  Return("extract_scadenza_from_df", "scadenza_extracted", result,
                       IF nb_patient_before # nb_patient_after
                       THEN << Error("extract_scadenza_from_df",
                                     nb_patient_before - nb_patient_after) >>
                       ELSE <<>>)
    /\ UNCHANGED env

\* line 255
to_csv ==
    /\ pc = "scadenza_extracted"
    /\ pc' = "written"
    /\ output' = Some(df)
    /\ UNCHANGED <<columns, note_dtype, df, received, ran, log, error>>
    /\ UNCHANGED env

Next ==
    \/ read_excel
    \/ filter_minor_from_df
    \/ filter_accepted_insurances
    \/ add_pnr_to_df
    \/ add_check_2nd_pnr
    \/ add_cat_code
    \/ extract_scadenza_from_df
    \/ to_csv

Spec == Init /\ [][Next]_vars

TypeOK ==
    /\ pc \in {"start", "read", "minor_filtered", "insurance_filtered", "pnr_added",
               "second_pnr_checked", "cat_added", "scadenza_extracted", "written",
               "aborted"}
    /\ (pc = "aborted") = ~IsNull(error)
    /\ (pc = "written") = ~IsNull(output)

----------------------------------------------------------------------------
(* process_patients of the batch script, one action per statement of its   *)
(* body.  WebDriver, process_patient and Response are imported modules:    *)
(* only the calls made on them are recorded, in the order they are made.   *)

PatientIds == {"P1", "P2"}
PatientLists == SeqsUpTo(PatientIds, MaxPatients)
Credentials == {"", "hf"}

\* process_patients is called: its arguments are bound, its locals are not
InitCalled ==
    /\ patients \in PatientLists
    /\ username \in Credentials
    /\ password \in Credentials
    /\ aws_pc = "called"
    /\ webdriver = "unbound"
    /\ response = "unbound"
    /\ cursor = 1
    /\ calls = <<>>
    /\ aws_error = None

\* the pipeline of the hospital machine is not running meanwhile
InitVmAtRest ==
    /\ sheet = <<>>
    /\ tabella = DefaultTabella
    /\ now = DefaultNow /\ osr_file = <<"E1">> /\ srt_file = <<"E2">>
    /\ cat_file = DefaultCat
    /\ InitRun

InitAws == InitVmAtRest /\ InitCalled

Call(name, arg) == [call |-> name, arg |-> arg]

\* an exception leaves process_patients: nothing after it runs
AwsRaise(exception) ==
    /\ aws_pc' = "raised"
    /\ aws_error' = Some(exception)

\* webdriver = WebDriver(...)
WebDriver ==
    /\ aws_pc = "called"
    /\ webdriver' = "open"
    /\ aws_pc' = "login"
    /\ calls' = Append(calls, Call("WebDriver", ""))
    /\ UNCHANGED <<patients, username, password, response, cursor, aws_error>>
    /\ UNCHANGED vm

\* login(webdriver, username, password): refuses empty credentials, otherwise
\* posts the form twice
login ==
    /\ aws_pc = "login"
    /\ IF username = "" \/ password = ""
       THEN /\ AwsRaise("ValueError")
            /\ UNCHANGED calls
       ELSE /\ aws_pc' = "for"
            /\ calls' = calls \o <<Call("post", "LOGIN_URL"), Call("post", "LOGIN_URL")>>
            /\ UNCHANGED aws_error
    /\ UNCHANGED <<patients, username, password, webdriver, response, cursor>>
    /\ UNCHANGED vm

\* one iteration of "for patient in patients": logger.info, then the call of
\* process_patient, whose argument response=response reads the local response;
\* a local read before its assignment raises UnboundLocalError
process_patient ==
    /\ aws_pc = "for"
    /\ cursor <= Len(patients)
    /\ IF response = "unbound"
       THEN /\ AwsRaise("UnboundLocalError")
            /\ calls' = Append(calls, Call("logger.info", patients[cursor]))
            /\ UNCHANGED cursor
       ELSE /\ calls' = calls \o <<Call("logger.info", patients[cursor]),
                                   Call("process_patient", patients[cursor])>>
            /\ cursor' = cursor + 1
            /\ UNCHANGED <<aws_pc, aws_error>>
    /\ UNCHANGED <<patients, username, password, webdriver, response>>
    /\ UNCHANGED vm

\* the loop is exhausted: webdriver.quit()
quit ==
    /\ aws_pc = "for"
    /\ cursor > Len(patients)
    /\ webdriver' = "quit"
    /\ aws_pc' = "quit"
    /\ calls' = Append(calls, Call("quit", ""))
    /\ UNCHANGED <<patients, username, password, response, cursor, aws_error>>
    /\ UNCHANGED vm

\* response = Response(...)
Response ==
    /\ aws_pc = "quit"
    /\ response' = "bound"
    /\ aws_pc' = "response"
    /\ calls' = Append(calls, Call("Response", ""))
    /\ UNCHANGED <<patients, username, password, webdriver, cursor, aws_error>>
    /\ UNCHANGED vm

\* response.send_mail_to_hospital(), then process_patients returns
send_mail_to_hospital ==
    /\ aws_pc = "response"
    /\ aws_pc' = "returned"
    /\ calls' = Append(calls, Call("send_mail_to_hospital", ""))
    /\ UNCHANGED <<patients, username, password, webdriver, response, cursor, aws_error>>
    /\ UNCHANGED vm

NextAws ==
    \/ WebDriver
    \/ login
    \/ process_patient
    \/ quit
    \/ Response
    \/ send_mail_to_hospital

SpecAws == InitAws /\ [][NextAws]_vars

TypeOKAws ==
    /\ aws_pc \in {"called", "login", "for", "quit", "response", "returned", "raised"}
    /\ webdriver \in {"unbound", "open", "quit"}
    /\ response \in {"unbound", "bound"}
    /\ cursor \in 1..(Len(patients) + 1)
    /\ (aws_pc = "raised") = ~IsNull(aws_error)

----------------------------------------------------------------------------
(* Vocabulary of the properties *)

FilterStages == {"filter_minor_from_df", "filter_accepted_insurances"}
EnrichmentStages ==
    {"add_pnr_to_df", "add_check_2nd_pnr", "add_cat_code", "extract_scadenza_from_df"}

\* a record without some of its columns
Without(r, cols) == [k \in (DOMAIN r) \ cols |-> r[k]]

\* the rows of `out` are rows of `inp`, in the order they have in `inp`
\* (the index labels of a batch are distinct and increasing)
KeepsOrder(out, inp) ==
    /\ \A j \in 1..Len(out) : \E i \in 1..Len(inp) : out[j] = inp[i]
    /\ \A j, k \in 1..Len(out) : j < k => out[j].idx < out[k].idx

\* out is inp with the columns `cols` added: nothing dropped, nothing moved
SameRows(out, inp, cols) ==
    /\ Len(out) = Len(inp)
    /\ \A i \in 1..Len(inp) : Without(out[i], cols) = inp[i]

LastStage == IF ran = <<>> THEN "none" ELSE ran[Len(ran)].stage

\* whole years from a birth date to the clock's date, by the calendar
CalendarAge(birth, clock) ==
    clock.date.y - birth.y
      - (IF clock.date.m < birth.m \/ (clock.date.m = birth.m /\ clock.date.d < birth.d)
         THEN 1 ELSE 0)

\* C1: the two filter stages never return more records than they received,
\* and every enrichment stage returns exactly as many records as it
\* received, whatever the lookup tables hold.
C1_CountPreserved ==
    \A k \in 1..Len(ran) :
        /\ ran[k].stage \in FilterStages => ran[k].nout <= ran[k].nin
        /\ ran[k].stage \in EnrichmentStages => ran[k].nout = ran[k].nin

\* C2: once an enrichment stage has returned a batch of another size than it
\* received, the run is aborted there: no later stage returns and no output
\* file is written.
C2_CountChangeAborts ==
    \A k \in 1..Len(ran) :
        (ran[k].stage \in EnrichmentStages /\ ran[k].nout # ran[k].nin)
            => /\ k = Len(ran)
               /\ IsNull(output)

\* C3: when filter_accepted_insurances has removed records, the log holds a
\* warning of that stage giving the number of removed records.
C3_RemovalWarned ==
    \A k \in 1..Len(ran) :
        (ran[k].stage = "filter_accepted_insurances" /\ ran[k].nout < ran[k].nin)
            => \E l \in 1..Len(log) :
                  log[l] = Warning("filter_accepted_insurances", ran[k].nin - ran[k].nout)

\* C4: after filter_minor_from_df the batch holds exactly the received
\* records whose age in whole calendar years is at least 18, in their order.
C4_AdultsByCalendar ==
    LastStage = "filter_minor_from_df" =>
        LET out == [j \in 1..Len(df) |-> Without(df[j], {"age"})]
        IN  /\ KeepsOrder(out, received)
            /\ \A i \in 1..Len(received) :
                  (CalendarAge(received[i].Data_Di_Nascita, now) >= 18)
                      = (\E j \in 1..Len(out) : out[j] = received[i])

\* C5: after filter_accepted_insurances the batch holds exactly the received
\* records whose insurance description equals an accepted string character
\* for character, in their order.
ExactlyAccepted(v) ==
    \E k \in 1..Len(accepted_insurances) :
        /\ Len(accepted_insurances[k]) = Len(v)
        /\ \A n \in 1..Len(v) : accepted_insurances[k][n] = v[n]

DiffersOnlyInCase(v) ==
    /\ ~ExactlyAccepted(v)
    /\ \E k \in 1..Len(accepted_insurances) : Lower(accepted_insurances[k]) = Lower(v)

C5_ExactInsuranceMatch ==
    LastStage = "filter_accepted_insurances" =>
        /\ KeepsOrder(df, received)
        /\ \A i \in 1..Len(received) :
              ExactlyAccepted(received[i].Descrizione_BusinessPartner)
                  = (\E j \in 1..Len(df) : df[j] = received[i])

C5_Witness ==
    /\ LastStage = "filter_accepted_insurances"
    /\ Len(df) = 1 /\ Len(received) = 2
    /\ DiffersOnlyInCase(received[1].Descrizione_BusinessPartner)
    /\ df[1] = received[2]

\* A text stands alone at p..p+n-1 when no word character touches it.
StandsAlone(s, p, n) ==
    /\ p = 1 \/ ~IsWord(s[p - 1])
    /\ p + n > Len(s) \/ ~IsWord(s[p + n])

\* the k-th smallest member of a set of positions
NthOf(S, k) == CHOOSE p \in S : Cardinality({q \in S : q < p}) = k - 1

\* an 8-character token: X or B twice, in either case, then six word characters
IsPnrToken(w) ==
    /\ Len(w) = 8
    /\ w[1] \in {"X", "B", "x", "b"}
    /\ w[2] \in {"X", "B", "x", "b"}
    /\ \A k \in 3..8 : IsWord(w[k])

\* where such a token stands alone; two of them cannot overlap, since each
\* is a whole run of word characters
PnrStarts(s) ==
    {p \in 1..(Len(s) - 7) : IsPnrToken(SubSeq(s, p, p + 7)) /\ StandsAlone(s, p, 8)}

PnrCodesOf(s) ==
    [k \in 1..Cardinality(PnrStarts(s)) |->
        SubSeq(s, NthOf(PnrStarts(s), k), NthOf(PnrStarts(s), k) + 7)]

StagesDone == {ran[k].stage : k \in 1..Len(ran)}

\* C7: once add_check_2nd_pnr has run, second_pnr of a record is true exactly
\* when its institute is 1 and its exam is in the OSR list, or its institute
\* is 8 and its exam is in the SRT list; for any other institute it is false.
C7_SecondPnrFlag ==
    "add_check_2nd_pnr" \in StagesDone =>
        \A i \in 1..Len(df) :
            /\ df[i].second_pnr
                 = \/ df[i].Istituto = 1 /\ df[i].Esame \in Range(osr_file)
                   \/ df[i].Istituto = 8 /\ df[i].Esame \in Range(srt_file)
            /\ df[i].Istituto \notin {1, 8} => ~df[i].second_pnr

C7_Witness ==
    /\ LastStage = "add_check_2nd_pnr"
    /\ \E i, j \in 1..Len(df) :
          /\ df[i].Istituto = 2 /\ df[i].Esame \in Range(osr_file) /\ ~df[i].second_pnr
          /\ df[j].Istituto = 8 /\ df[j].second_pnr

\* the category ids the table on disk gives an exam code
CategoryIds(code) ==
    {cat_file[k].ID_prestazioni :
        k \in {n \in 1..Len(cat_file) : cat_file[n].Codice_Esame_SAP = code}}

\* the label of the ten-entry enumeration for an id, null outside 1..10
LabelOf(id) == IF id \in 1..10 THEN Some(DICT_PRESTAZIONNE[id]) ELSE None

\* C8: after add_cat_code the type_prestazioni of a record is the label of a
\* category id the table gives its exam code, and null when the table has no
\* row for the code; every received record is still in the batch.
C8_CategoryLabel ==
    LastStage = "add_cat_code" =>
        /\ Len(DICT_PRESTAZIONNE) = 10
        /\ \A j \in 1..Len(df) :
              IF CategoryIds(df[j].Esame) = {}
              THEN IsNull(df[j].type_prestazioni)
              ELSE \E id \in CategoryIds(df[j].Esame) :
                      /\ df[j].ID_prestazioni = Some(id)
                      /\ df[j].type_prestazioni = LabelOf(id)
        /\ \A i \in 1..Len(received) : \E j \in 1..Len(df) :
              Without(df[j], {"idx", "Codice_Esame_SAP", "ID_prestazioni", "type_prestazioni"})
                  = Without(received[i], {"idx"})

C8_Witness ==
    /\ LastStage = "add_cat_code"
    /\ \E i, j \in 1..Len(df) :
          /\ CategoryIds(df[i].Esame) = {} /\ IsNull(df[i].type_prestazioni)
          /\ df[j].type_prestazioni = Some("Prevenzione")

\* a date-like text: one or two digits, a separator, one or two digits and,
\* optionally, a separator and two to four digits
IsDateLike(t) ==
    \E d1 \in 1..2, d2 \in 1..2, g \in {0, 2, 3, 4} :
        /\ Len(t) = d1 + 1 + d2 + (IF g = 0 THEN 0 ELSE g + 1)
        /\ \A k \in 1..Len(t) :
              IF k = d1 + 1 \/ (g # 0 /\ k = d1 + d2 + 2)
              THEN t[k] \in {".", "/", "-"}
              ELSE IsDigit(t[k])

DateLikeAt(s, p, n) ==
    /\ p + n - 1 <= Len(s)
    /\ IsDateLike(SubSeq(s, p, p + n - 1))
    /\ StandsAlone(s, p, n)

DateStarts(s) == {p \in 1..Len(s) : IsDigit(s[p]) /\ \E n \in 3..10 : DateLikeAt(s, p, n)}

\* the first date-like text of a note: leftmost, and the longest there
FirstDateText(s) ==
    LET p == NthOf(DateStarts(s), 1)
        n == CHOOSE n \in 3..10 :
                 /\ DateLikeAt(s, p, n)
                 /\ \A m \in (n + 1)..10 : ~DateLikeAt(s, p, m)
    IN  SubSeq(s, p, p + n - 1)

\* the numbers of a date-like text
NumbersOf(t) ==
    LET seps == {k \in 1..Len(t) : ~IsDigit(t[k])}
        s1 == NthOf(seps, 1)
    IN  IF Cardinality(seps) = 1
        THEN << NumVal(SubSeq(t, 1, s1 - 1)), NumVal(SubSeq(t, s1 + 1, Len(t))) >>
        ELSE << NumVal(SubSeq(t, 1, s1 - 1)),
                NumVal(SubSeq(t, s1 + 1, NthOf(seps, 2) - 1)),
                NumVal(SubSeq(t, NthOf(seps, 2) + 1, Len(t))) >>

\* day before month: when the second number can be a month, the first is
\* the day; a year written with four digits is the year, and a text without
\* a year is of the clock's year
IsDayFirstReading(t, date) ==
    LET f == NumbersOf(t)
    IN  (f[1] \in 1..31 /\ f[2] \in 1..12) =>
            /\ date.d = f[1]
            /\ date.m = f[2]
            /\ Len(f) = 2 => date.y = now.date.y
            /\ (Len(f) = 3 /\ f[3] >= 1000) => date.y = f[3]

HeaderValid ==
    /\ tabella.present
    /\ tabella.ncols = Cardinality(ExpectedColumns)
    /\ ExpectedColumns \subseteq tabella.names

\* C10: when no valid header can be established, reading the sheet fails and
\* the run ends there: no stage runs and nothing is written.
C10_BadHeaderStopsAtRead ==
    ~HeaderValid =>
        /\ ran = <<>>
        /\ IsNull(output)
        /\ pc = "aborted" => Get(error).stage = "read_excel"

----------------------------------------------------------------------------
(* The batch script *)

\* the calls on the portal session and on the response, without the log lines
\* and the construction of the driver
PortalCalls == SelectSeq(calls, LAMBDA e : e.call \notin {"logger.info", "WebDriver"})

\* a whole batch: log in, each patient once in list order, quit the driver,
\* build the response, mail it once
BatchCalls(ps) ==
    <<Call("post", "LOGIN_URL"), Call("post", "LOGIN_URL")>>
        \o [i \in 1..Len(ps) |-> Call("process_patient", ps[i])]
        \o <<Call("quit", ""), Call("Response", ""), Call("send_mail_to_hospital", "")>>

IsPrefix(a, b) == Len(a) <= Len(b) /\ SubSeq(b, 1, Len(a)) = a

CanLogIn == username # "" /\ password # ""

Ended == aws_pc \in {"returned", "raised"}

\* C11: for every patient list, empty or not, process_patients logs in, then
\* processes each patient once in list order, then quits the driver, then
\* builds the response and mails it exactly once; the mail is never sent
\* before all patients have been processed.  As a state predicate: the calls
\* made so far are always the beginning of that sequence, and when
\* process_patients has ended with credentials to log in with, they are the
\* whole of it.
C11_BatchMailedOnce ==
    /\ IsPrefix(PortalCalls, BatchCalls(patients))
    /\ CanLogIn /\ Ended => PortalCalls = BatchCalls(patients)

====
